---- MODULE Spec2Model ----
(***************************************************************************)
(* Buddy-system memory allocator: class BuddySystem of                     *)
(* src/buddy_system_gui.py (free-list table, allocation list, allocate,    *)
(* deallocate, calculate_stats).                                           *)
(***************************************************************************)
EXTENDS Integers, Sequences, FiniteSets, TLC

\* callers ask for 1 .. MaxRequest
MaxRequest == 5
\* at most MaxAllocs live allocation records
MaxAllocs == 4
\* the sizes that are no power of two range over 3 .. MaxTotal
MaxTotal == 24
\* process names handed to allocate / deallocate
Owners == {"P1", "P2"}

\* Python's None, the result of a failed allocate
None == -1

VARIABLES
    total_memory,      \* self.total_memory
    free_blocks,       \* self.free_blocks: dict size -> list of addresses
    allocated_blocks,  \* self.allocated_blocks: list of (name, address, block_size, size)
    op,                \* the last call made on the allocator and what it returned
    calls,             \* per caller: the call in progress, statement by statement
    serial             \* TRUE: a call runs to its end before the next one starts

vars == <<total_memory, free_blocks, allocated_blocks, op, calls, serial>>

----------------------------------------------------------------------------
\* Helpers for Python's list and int operations

\* address ^ block_size on non-negative integers
RECURSIVE Xor(_, _)
Xor(a, b) ==
    IF a = 0 THEN b
    ELSE IF b = 0 THEN a
    ELSE (((a % 2) + (b % 2)) % 2) + 2 * Xor(a \div 2, b \div 2)

\* x in list
Contains(list, x) == \E i \in 1..Len(list) : list[i] = x

\* list.remove(x): drops the first element equal to x
RECURSIVE list_remove(_, _)
list_remove(list, x) ==
    IF list = <<>> THEN <<>>
    ELSE IF Head(list) = x THEN Tail(list)
    ELSE <<Head(list)>> \o list_remove(Tail(list), x)

\* insertion of x into an ascending list, before the first larger element
RECURSIVE InsertSorted(_, _)
InsertSorted(list, x) ==
    IF list = <<>> THEN <<x>>
    ELSE IF x < Head(list) THEN <<x>> \o list
    ELSE <<Head(list)>> \o InsertSorted(Tail(list), x)

\* list.sort(): ascending order of the integers of the list
RECURSIVE list_sort(_)
list_sort(list) ==
    IF list = <<>> THEN <<>>
    ELSE InsertSorted(list_sort(Tail(list)), Head(list))

\* min(a, b)
min(a, b) == IF a <= b THEN a ELSE b

----------------------------------------------------------------------------
\* _initialize_free_blocks: the keys total_memory//2, total_memory//4, ..., 1
RECURSIVE HalvingKeys(_)
HalvingKeys(size) ==
    IF size >= 1 THEN {size} \cup HalvingKeys(size \div 2) ELSE {}

initialize_free_blocks(total) ==
    [s \in {total} \cup HalvingKeys(total \div 2) |->
        IF s = total THEN <<0>> ELSE <<>>]

\* mutant of find_block_size_loop: "while block_size <= size"
RECURSIVE find_block_size_loop_le(_, _)
find_block_size_loop_le(block_size, size) ==
    IF block_size <= size THEN find_block_size_loop_le(block_size * 2, size)
    ELSE block_size

\* _find_block_size: the loop "while block_size < size: block_size *= 2"
RECURSIVE find_block_size_loop(_, _)
find_block_size_loop(block_size, size) ==
    IF block_size < size THEN find_block_size_loop(block_size * 2, size)
    ELSE block_size

\* mutant of find_block_size: the size is not rounded up
find_block_size_unrounded(size) == size

find_block_size(size) == find_block_size_loop(1, size)

\* mutant of find_buddy: "address + block_size"
find_buddy_plus(address, block_size) == address + block_size

\* _find_buddy
find_buddy(address, block_size) == Xor(address, block_size)

\* mutant of pop_first: reads list[0] and leaves it in the list
pop_first_keep(list) == [value |-> Head(list), rest |-> list]

\* list.pop(0): the element returned and the list left
pop_first(list) == [value |-> Head(list), rest |-> Tail(list)]

\* mutant of split_block: the second half is never pushed
split_block_one_half(fb, larger_block_size) ==
    IF larger_block_size \notin DOMAIN fb \/ fb[larger_block_size] = <<>>
    THEN [fb |-> fb, status |-> "cannot_split"]
    ELSE LET address == Head(fb[larger_block_size])
             smaller_block_size == larger_block_size \div 2
         IN  [fb |-> [fb EXCEPT ![larger_block_size] = Tail(@),
                                ![smaller_block_size] = Append(@, address)],
              status |-> "split"]

\* _split_block on the free-list table fb: the table it leaves and how it
\* ended: "split" (True returned), "cannot_split" (the branch of lines 64-67;
\* the False it returns is ignored by the only caller) or "KeyError" (no free
\* list of the smaller size, raised at line 71 after the pop)
split_block(fb, larger_block_size) ==
    IF larger_block_size \notin DOMAIN fb \/ fb[larger_block_size] = <<>>
    THEN [fb |-> fb, status |-> "cannot_split"]
    ELSE LET popped == pop_first(fb[larger_block_size])
             address == popped.value
             smaller_block_size == larger_block_size \div 2
             left == [fb EXCEPT ![larger_block_size] = popped.rest]
         IN  IF smaller_block_size \notin DOMAIN fb
             THEN [fb |-> left, status |-> "KeyError"]
             ELSE [fb |-> [left EXCEPT ![smaller_block_size] =
                              Append(Append(@, address),
                                     address + smaller_block_size)],
                   status |-> "split"]

\* mutant of ensure_block_available: "larger_block_size < self.total_memory",
\* so the block of the whole space is never split
RECURSIVE ensure_block_available_strict(_, _)
ensure_block_available_strict(fb, block_size) ==
    IF block_size \in DOMAIN fb /\ fb[block_size] # <<>>
    THEN [ok |-> TRUE, fb |-> fb, splits |-> 0, depth |-> 0,
          cannot_split |-> FALSE, fault |-> "none"]
    ELSE LET larger_block_size == block_size * 2 IN
         IF larger_block_size < total_memory
         THEN LET r == ensure_block_available_strict(fb, larger_block_size) IN
              IF r.fault # "none"
              THEN [r EXCEPT !.depth = @ + 1]
              ELSE IF r.ok
              THEN LET sp == split_block(r.fb, larger_block_size) IN
                   [ok |-> IF sp.status = "KeyError" THEN FALSE ELSE TRUE,
                    fb |-> sp.fb,
                    splits |-> r.splits + (IF sp.status = "split" THEN 1 ELSE 0),
                    depth |-> r.depth + 1,
                    cannot_split |-> r.cannot_split \/ sp.status = "cannot_split",
                    fault |-> IF sp.status = "KeyError" THEN "KeyError" ELSE "none"]
              ELSE [r EXCEPT !.depth = @ + 1]
         ELSE [ok |-> FALSE, fb |-> fb, splits |-> 0, depth |-> 0,
               cannot_split |-> FALSE, fault |-> "none"]

\* mutant of ensure_block_available: the "return True" after the split is
\* missing, so the call falls through to "return False"
RECURSIVE ensure_block_available_no_return(_, _)
ensure_block_available_no_return(fb, block_size) ==
    IF block_size \in DOMAIN fb /\ fb[block_size] # <<>>
    THEN [ok |-> TRUE, fb |-> fb, splits |-> 0, depth |-> 0,
          cannot_split |-> FALSE, fault |-> "none"]
    ELSE LET larger_block_size == block_size * 2 IN
         IF larger_block_size <= total_memory
         THEN LET r == ensure_block_available_no_return(fb, larger_block_size) IN
              IF r.fault # "none"
              THEN [r EXCEPT !.depth = @ + 1]
              ELSE IF r.ok
              THEN LET sp == split_block(r.fb, larger_block_size) IN
                   [ok |-> IF sp.status = "KeyError" THEN FALSE ELSE FALSE,
                    fb |-> sp.fb,
                    splits |-> r.splits + (IF sp.status = "split" THEN 1 ELSE 0),
                    depth |-> r.depth + 1,
                    cannot_split |-> r.cannot_split \/ sp.status = "cannot_split",
                    fault |-> IF sp.status = "KeyError" THEN "KeyError" ELSE "none"]
              ELSE [r EXCEPT !.depth = @ + 1]
         ELSE [ok |-> FALSE, fb |-> fb, splits |-> 0, depth |-> 0,
               cannot_split |-> FALSE, fault |-> "none"]

\* mutant of ensure_block_available: "larger_block_size <= 2 * self.total_memory",
\* so the recursion asks for a block larger than the whole space
RECURSIVE ensure_block_available_beyond(_, _)
ensure_block_available_beyond(fb, block_size) ==
    IF block_size \in DOMAIN fb /\ fb[block_size] # <<>>
    THEN [ok |-> TRUE, fb |-> fb, splits |-> 0, depth |-> 0,
          cannot_split |-> FALSE, fault |-> "none"]
    ELSE LET larger_block_size == block_size * 2 IN
         IF larger_block_size <= 2 * total_memory
         THEN LET r == ensure_block_available_beyond(fb, larger_block_size) IN
              IF r.fault # "none"
              THEN [r EXCEPT !.depth = @ + 1]
              ELSE IF r.ok
              THEN LET sp == split_block(r.fb, larger_block_size) IN
                   [ok |-> IF sp.status = "KeyError" THEN FALSE ELSE TRUE,
                    fb |-> sp.fb,
                    splits |-> r.splits + (IF sp.status = "split" THEN 1 ELSE 0),
                    depth |-> r.depth + 1,
                    cannot_split |-> r.cannot_split \/ sp.status = "cannot_split",
                    fault |-> IF sp.status = "KeyError" THEN "KeyError" ELSE "none"]
              ELSE [r EXCEPT !.depth = @ + 1]
         ELSE [ok |-> FALSE, fb |-> fb, splits |-> 0, depth |-> 0,
               cannot_split |-> FALSE, fault |-> "none"]

\* mutant of ensure_block_available: the result of the recursive call is
\* ignored, the split is made and True returned in any case
RECURSIVE ensure_block_available_ignore_result(_, _)
ensure_block_available_ignore_result(fb, block_size) ==
    IF block_size \in DOMAIN fb /\ fb[block_size] # <<>>
    THEN [ok |-> TRUE, fb |-> fb, splits |-> 0, depth |-> 0,
          cannot_split |-> FALSE, fault |-> "none"]
    ELSE LET larger_block_size == block_size * 2 IN
         IF larger_block_size <= total_memory
         THEN LET r == ensure_block_available_ignore_result(fb, larger_block_size) IN
              IF r.fault # "none"
              THEN [r EXCEPT !.depth = @ + 1]
              ELSE IF r.ok \/ ~r.ok
              THEN LET sp == split_block(r.fb, larger_block_size) IN
                   [ok |-> IF sp.status = "KeyError" THEN FALSE ELSE TRUE,
                    fb |-> sp.fb,
                    splits |-> r.splits + (IF sp.status = "split" THEN 1 ELSE 0),
                    depth |-> r.depth + 1,
                    cannot_split |-> r.cannot_split \/ sp.status = "cannot_split",
                    fault |-> IF sp.status = "KeyError" THEN "KeyError" ELSE "none"]
              ELSE [r EXCEPT !.depth = @ + 1]
         ELSE [ok |-> FALSE, fb |-> fb, splits |-> 0, depth |-> 0,
               cannot_split |-> FALSE, fault |-> "none"]

\* _ensure_block_available: the boolean it returns, the free-list table it
\* leaves, the number of splits made, the number of recursive calls made,
\* whether a _split_block it called took its "Cannot split" branch, and the
\* exception raised ("none" when it returned)
RECURSIVE ensure_block_available(_, _)
ensure_block_available(fb, block_size) ==
    IF block_size \in DOMAIN fb /\ fb[block_size] # <<>>
    THEN [ok |-> TRUE, fb |-> fb, splits |-> 0, depth |-> 0,
          cannot_split |-> FALSE, fault |-> "none"]
    ELSE LET larger_block_size == block_size * 2 IN
         IF larger_block_size <= total_memory
         THEN LET r == ensure_block_available(fb, larger_block_size) IN
              IF r.fault # "none"
              THEN [r EXCEPT !.depth = @ + 1]
              ELSE IF r.ok
              THEN LET sp == split_block(r.fb, larger_block_size) IN
                   [ok |-> IF sp.status = "KeyError" THEN FALSE ELSE TRUE,
                    fb |-> sp.fb,
                    splits |-> r.splits + (IF sp.status = "split" THEN 1 ELSE 0),
                    depth |-> r.depth + 1,
                    cannot_split |-> r.cannot_split \/ sp.status = "cannot_split",
                    fault |-> IF sp.status = "KeyError" THEN "KeyError" ELSE "none"]
              ELSE [r EXCEPT !.depth = @ + 1]
         ELSE [ok |-> FALSE, fb |-> fb, splits |-> 0, depth |-> 0,
               cannot_split |-> FALSE, fault |-> "none"]

\* mutant of merge_loop: the buddy stays in its free list after the merge
RECURSIVE merge_loop_keep_buddy(_, _, _)
merge_loop_keep_buddy(fb, address, block_size) ==
    IF block_size < total_memory
    THEN LET buddy_address == find_buddy(address, block_size) IN
         IF Contains(fb[block_size], buddy_address)
         THEN LET first == list_remove(fb[block_size], address)
                  rest == first
                  merged == min(address, buddy_address)
                  larger_block_size == block_size * 2
              IN  IF ~Contains(fb[block_size], address)
                  THEN [fb |-> fb, merges |-> 0, fault |-> "ValueError"]
                  ELSE IF larger_block_size \notin DOMAIN fb
                  THEN [fb |-> [fb EXCEPT ![block_size] = rest],
                        merges |-> 0, fault |-> "KeyError"]
                  ELSE LET r == merge_loop_keep_buddy(
                                    [fb EXCEPT ![block_size] = rest,
                                               ![larger_block_size] =
                                                   Append(@, merged)],
                                    merged, larger_block_size)
                       IN  [r EXCEPT !.merges = @ + 1]
         ELSE [fb |-> fb, merges |-> 0, fault |-> "none"]
    ELSE [fb |-> fb, merges |-> 0, fault |-> "none"]

\* the merge loop left after its first pass
merge_loop_stop(fb, address, block_size) ==
    [fb |-> fb, merges |-> 0, fault |-> "none"]

\* mutant of merge_loop: one merge and no cascade ("if" for "while")
merge_loop_once(fb, address, block_size) ==
    IF block_size < total_memory
    THEN LET buddy_address == find_buddy(address, block_size) IN
         IF Contains(fb[block_size], buddy_address)
         THEN LET first == list_remove(fb[block_size], address)
                  rest == list_remove(first, buddy_address)
                  merged == min(address, buddy_address)
                  larger_block_size == block_size * 2
              IN  IF ~Contains(fb[block_size], address)
                  THEN [fb |-> fb, merges |-> 0, fault |-> "ValueError"]
                  ELSE IF ~Contains(first, buddy_address)
                  THEN [fb |-> [fb EXCEPT ![block_size] = first],
                        merges |-> 0, fault |-> "ValueError"]
                  ELSE IF larger_block_size \notin DOMAIN fb
                  THEN [fb |-> [fb EXCEPT ![block_size] = rest],
                        merges |-> 0, fault |-> "KeyError"]
                  ELSE LET r == merge_loop_stop(
                                    [fb EXCEPT ![block_size] = rest,
                                               ![larger_block_size] =
                                                   Append(@, merged)],
                                    merged, larger_block_size)
                       IN  [r EXCEPT !.merges = @ + 1]
         ELSE [fb |-> fb, merges |-> 0, fault |-> "none"]
    ELSE [fb |-> fb, merges |-> 0, fault |-> "none"]

\* mutant of merge_loop: the merged block keeps the address of the freed
\* block ("min" is missing)
RECURSIVE merge_loop_no_min(_, _, _)
merge_loop_no_min(fb, address, block_size) ==
    IF block_size < total_memory
    THEN LET buddy_address == find_buddy(address, block_size) IN
         IF Contains(fb[block_size], buddy_address)
         THEN LET first == list_remove(fb[block_size], address)
                  rest == list_remove(first, buddy_address)
                  merged == address
                  larger_block_size == block_size * 2
              IN  IF ~Contains(fb[block_size], address)
                  THEN [fb |-> fb, merges |-> 0, fault |-> "ValueError"]
                  ELSE IF ~Contains(first, buddy_address)
                  THEN [fb |-> [fb EXCEPT ![block_size] = first],
                        merges |-> 0, fault |-> "ValueError"]
                  ELSE IF larger_block_size \notin DOMAIN fb
                  THEN [fb |-> [fb EXCEPT ![block_size] = rest],
                        merges |-> 0, fault |-> "KeyError"]
                  ELSE LET r == merge_loop_no_min(
                                    [fb EXCEPT ![block_size] = rest,
                                               ![larger_block_size] =
                                                   Append(@, merged)],
                                    merged, larger_block_size)
                       IN  [r EXCEPT !.merges = @ + 1]
         ELSE [fb |-> fb, merges |-> 0, fault |-> "none"]
    ELSE [fb |-> fb, merges |-> 0, fault |-> "none"]

\* mutant of merge_loop: "while block_size * 2 < self.total_memory", so the
\* two halves of the whole space are never merged
RECURSIVE merge_loop_below_top(_, _, _)
merge_loop_below_top(fb, address, block_size) ==
    IF block_size * 2 < total_memory
    THEN LET buddy_address == find_buddy(address, block_size) IN
         IF Contains(fb[block_size], buddy_address)
         THEN LET first == list_remove(fb[block_size], address)
                  rest == list_remove(first, buddy_address)
                  merged == min(address, buddy_address)
                  larger_block_size == block_size * 2
              IN  IF ~Contains(fb[block_size], address)
                  THEN [fb |-> fb, merges |-> 0, fault |-> "ValueError"]
                  ELSE IF ~Contains(first, buddy_address)
                  THEN [fb |-> [fb EXCEPT ![block_size] = first],
                        merges |-> 0, fault |-> "ValueError"]
                  ELSE IF larger_block_size \notin DOMAIN fb
                  THEN [fb |-> [fb EXCEPT ![block_size] = rest],
                        merges |-> 0, fault |-> "KeyError"]
                  ELSE LET r == merge_loop_below_top(
                                    [fb EXCEPT ![block_size] = rest,
                                               ![larger_block_size] =
                                                   Append(@, merged)],
                                    merged, larger_block_size)
                       IN  [r EXCEPT !.merges = @ + 1]
         ELSE [fb |-> fb, merges |-> 0, fault |-> "none"]
    ELSE [fb |-> fb, merges |-> 0, fault |-> "none"]

\* the merge loop of deallocate (lines 90-101): the free-list table it leaves,
\* the number of merges it made and the exception raised ("none" when the
\* loop ended): ValueError when list.remove finds no such address, KeyError
\* when there is no free list of the doubled size
RECURSIVE merge_loop(_, _, _)
merge_loop(fb, address, block_size) ==
    IF block_size < total_memory
    THEN LET buddy_address == find_buddy(address, block_size) IN
         IF Contains(fb[block_size], buddy_address)
         THEN LET first == list_remove(fb[block_size], address)
                  rest == list_remove(first, buddy_address)
                  merged == min(address, buddy_address)
                  larger_block_size == block_size * 2
              IN  IF ~Contains(fb[block_size], address)
                  THEN [fb |-> fb, merges |-> 0, fault |-> "ValueError"]
                  ELSE IF ~Contains(first, buddy_address)
                  THEN [fb |-> [fb EXCEPT ![block_size] = first],
                        merges |-> 0, fault |-> "ValueError"]
                  ELSE IF larger_block_size \notin DOMAIN fb
                  THEN [fb |-> [fb EXCEPT ![block_size] = rest],
                        merges |-> 0, fault |-> "KeyError"]
                  ELSE LET r == merge_loop(
                                    [fb EXCEPT ![block_size] = rest,
                                               ![larger_block_size] =
                                                   Append(@, merged)],
                                    merged, larger_block_size)
                       IN  [r EXCEPT !.merges = @ + 1]
         ELSE [fb |-> fb, merges |-> 0, fault |-> "none"]
    ELSE [fb |-> fb, merges |-> 0, fault |-> "none"]

\* the free-list append and sort of deallocate (lines 83-86)
free_block(fb, address, block_size) ==
    LET fb0 == IF block_size \notin DOMAIN fb
               THEN [s \in DOMAIN fb \cup {block_size} |->
                        IF s \in DOMAIN fb THEN fb[s] ELSE <<>>]
               ELSE fb
    IN  [fb0 EXCEPT ![block_size] = list_sort(Append(@, address))]

\* mutant of first_match: the name is not compared, the first record matches
first_match_any(blocks, process_name) ==
    IF blocks = <<>> THEN 0 ELSE 1

\* mutant of first_match: the last record of that name is taken
first_match_last(blocks, process_name) ==
    LET hits == {i \in 1..Len(blocks) : blocks[i][1] = process_name}
    IN  IF hits = {} THEN 0
        ELSE CHOOSE i \in hits : \A j \in hits : i >= j

\* the first record of the allocation list whose name matches (lines 79-80)
first_match(blocks, process_name) ==
    LET hits == {i \in 1..Len(blocks) : blocks[i][1] = process_name}
    IN  IF hits = {} THEN 0
        ELSE CHOOSE i \in hits : \A j \in hits : i <= j

\* calculate_stats
RECURSIVE SumRequested(_)
SumRequested(blocks) ==
    IF blocks = <<>> THEN 0 ELSE Head(blocks)[4] + SumRequested(Tail(blocks))

RECURSIVE SumFragmentation(_)
SumFragmentation(blocks) ==
    IF blocks = <<>> THEN 0
    ELSE (Head(blocks)[3] - Head(blocks)[4]) + SumFragmentation(Tail(blocks))

RECURSIVE SumFree(_, _)
SumFree(fb, keys) ==
    IF keys = {} THEN 0
    ELSE LET size == CHOOSE s \in keys : TRUE
         IN  size * Len(fb[size]) + SumFree(fb, keys \ {size})

calculate_stats ==
    [allocated_space |-> SumRequested(allocated_blocks),
     free_space |-> SumFree(free_blocks, DOMAIN free_blocks),
     internal_fragmentation |-> SumFragmentation(allocated_blocks)]

----------------------------------------------------------------------------
\* The state machine

\* n is a power of two
RECURSIVE IsPowerOfTwo(_)
IsPowerOfTwo(n) ==
    IF n <= 1 THEN n = 1 ELSE n % 2 = 0 /\ IsPowerOfTwo(n \div 2)

\* the power-of-two sizes the allocator is constructed with
TotalSizes == {2, 4, 8}

\* sizes a caller asks for (larger than the whole space when total_memory is
\* small)
RequestSizes == 1..MaxRequest

\* op.kind is the method called last; op.process_name is the name argument of
\* deallocate, and of an allocate that returned an address; op.size is the
\* size argument of an allocate that returned an address (of a failed allocate
\* the block size alone is kept); op.block_size is the block size allocate
\* computed or the size of the block deallocate freed; op.result is the address allocate returned
\* (None when it failed) or the address of the block deallocate freed; op.ok
\* tells whether the call succeeded (allocate: an address was returned,
\* deallocate: True was returned); op.steps is the number of splits
\* (allocate) or merges (deallocate) made and op.depth the number of recursive
\* _ensure_block_available calls; op.cannot_split tells whether _split_block
\* took its "Cannot split" branch; op.fault is the exception the call raised
\* ("none" when it returned)
OpRecord(kind, process_name, size, block_size, result, ok, steps, depth, cannot_split, fault) ==
    [kind |-> kind, process_name |-> process_name, size |-> size,
     block_size |-> block_size,
     result |-> result, ok |-> ok, steps |-> steps, depth |-> depth,
     cannot_split |-> cannot_split, fault |-> fault]

\* the callers of the allocator
Callers == {1, 2}

\* a caller with no call in progress; of a call, pc is the statement to run
\* next, block_size the block size of the call, cur the size class the
\* recursion or the merge loop is at, block the record deallocate found,
\* fault the exception that ended the call
IdleCall ==
    [pc |-> "idle", process_name |-> "", size |-> 0, block_size |-> 0,
     cur |-> 0, address |-> None, buddy_address |-> None, block |-> <<>>,
     fault |-> "none"]

InitWith(totals) ==
    /\ total_memory \in totals
    /\ free_blocks = initialize_free_blocks(total_memory)
    /\ allocated_blocks = <<>>
    /\ op = OpRecord("init", "", 0, 0, None, TRUE, 0, 0, FALSE, "none")
    /\ calls = [c \in Callers |-> IdleCall]
    /\ serial = TRUE

Init == InitWith(TotalSizes)

\* mutant of allocate: the record is inserted at the head of the list
allocate_prepend(size, process_name) ==
    LET block_size == find_block_size(size) IN
    \E r \in {ensure_block_available(free_blocks, block_size)} :
        /\ (Len(allocated_blocks) < MaxAllocs \/ ~r.ok)
        /\ IF r.fault # "none"
           THEN /\ free_blocks' = r.fb
                /\ allocated_blocks' = allocated_blocks
                /\ op' = OpRecord("allocate", "", 0, block_size, None, FALSE,
                                  r.splits, r.depth, r.cannot_split, r.fault)
           ELSE IF ~r.ok
           THEN /\ free_blocks' = r.fb
                /\ allocated_blocks' = allocated_blocks
                /\ op' = OpRecord("allocate", "", 0, block_size, None, FALSE,
                                  r.splits, r.depth, r.cannot_split, "none")
           ELSE IF block_size \notin DOMAIN r.fb
           THEN /\ free_blocks' = r.fb
                /\ allocated_blocks' = allocated_blocks
                /\ op' = OpRecord("allocate", "", 0, block_size, None, FALSE,
                                  r.splits, r.depth, r.cannot_split, "KeyError")
           ELSE IF r.fb[block_size] = <<>>
           THEN /\ free_blocks' = r.fb
                /\ allocated_blocks' = allocated_blocks
                /\ op' = OpRecord("allocate", "", 0, block_size, None, FALSE,
                                  r.splits, r.depth, r.cannot_split, "IndexError")
           ELSE LET popped == pop_first(r.fb[block_size])
                    address == popped.value
                IN  /\ free_blocks' = [r.fb EXCEPT ![block_size] = popped.rest]
                    /\ allocated_blocks' =
                           <<<<process_name, address, block_size, size>>>>
                               \o allocated_blocks
                    /\ op' = OpRecord("allocate", process_name, size,
                                      block_size, address, TRUE, r.splits,
                                      r.depth, r.cannot_split, "none")
        /\ UNCHANGED <<total_memory, calls, serial>>

allocate(size, process_name) ==
    LET block_size == find_block_size(size) IN
    \E r \in {ensure_block_available(free_blocks, block_size)} :
        /\ (Len(allocated_blocks) < MaxAllocs \/ ~r.ok)
        /\ IF r.fault # "none"
           THEN /\ free_blocks' = r.fb
                /\ allocated_blocks' = allocated_blocks
                /\ op' = OpRecord("allocate", "", 0, block_size, None, FALSE,
                                  r.splits, r.depth, r.cannot_split, r.fault)
           ELSE IF ~r.ok
           THEN /\ free_blocks' = r.fb
                /\ allocated_blocks' = allocated_blocks
                /\ op' = OpRecord("allocate", "", 0, block_size, None, FALSE,
                                  r.splits, r.depth, r.cannot_split, "none")
           ELSE IF block_size \notin DOMAIN r.fb
           THEN /\ free_blocks' = r.fb
                /\ allocated_blocks' = allocated_blocks
                /\ op' = OpRecord("allocate", "", 0, block_size, None, FALSE,
                                  r.splits, r.depth, r.cannot_split, "KeyError")
           ELSE IF r.fb[block_size] = <<>>
           THEN /\ free_blocks' = r.fb
                /\ allocated_blocks' = allocated_blocks
                /\ op' = OpRecord("allocate", "", 0, block_size, None, FALSE,
                                  r.splits, r.depth, r.cannot_split, "IndexError")
           ELSE LET popped == pop_first(r.fb[block_size])
                    address == popped.value
                IN  /\ free_blocks' = [r.fb EXCEPT ![block_size] = popped.rest]
                    /\ allocated_blocks' =
                           Append(allocated_blocks,
                                  <<process_name, address, block_size, size>>)
                    /\ op' = OpRecord("allocate", process_name, size,
                                      block_size, address, TRUE, r.splits,
                                      r.depth, r.cannot_split, "none")
        /\ UNCHANGED <<total_memory, calls, serial>>

deallocate(process_name) ==
    LET i == first_match(allocated_blocks, process_name) IN
    /\ IF i = 0
       THEN /\ UNCHANGED <<free_blocks, allocated_blocks>>
            /\ op' = OpRecord("deallocate", process_name, 0, 0, None, FALSE,
                              0, 0, FALSE, "none")
       ELSE LET block == allocated_blocks[i]
                address == block[2]
                block_size == block[3]
            IN  \E m \in {merge_loop(free_block(free_blocks, address,
                                                block_size),
                                     address, block_size)} :
                /\ allocated_blocks' = list_remove(allocated_blocks, block)
                /\ free_blocks' = m.fb
                /\ op' = OpRecord("deallocate", process_name, 0, block_size,
                                  address, m.fault = "none", m.merges, 0,
                                  FALSE, m.fault)
    /\ UNCHANGED <<total_memory, calls, serial>>

Next ==
    \/ \E size \in RequestSizes, process_name \in Owners :
           allocate(size, process_name)
    \/ \E process_name \in Owners : deallocate(process_name)

Spec == Init /\ [][Next]_vars

\* the allocator constructed with a size that is no power of two:
\* update_total_memory accepts any positive integer (lines 363-366)
NonPowerTotalSizes == {t \in 3..MaxTotal : ~IsPowerOfTwo(t)}

InitNonPower == InitWith(NonPowerTotalSizes)

SpecNonPower == InitNonPower /\ [][Next]_vars

\* BuddySystem.allocate called directly, without the "size > 0" test that
\* add_process makes before its call (line 324): sizes 0 and -1 as well
DirectRequestSizes == {-1, 0} \cup RequestSizes

NextDirect ==
    \/ \E size \in DirectRequestSizes, process_name \in Owners :
           allocate(size, process_name)
    \/ \E process_name \in Owners : deallocate(process_name)

\* the sizes the directly called allocator is constructed with
DirectTotalSizes == {2, 4}

InitDirect == InitWith(DirectTotalSizes)

SpecDirect == InitDirect /\ [][NextDirect]_vars

----------------------------------------------------------------------------
\* Two callers on one allocator, a call advancing one statement at a time.
\* Nothing in the class takes a lock; with serial a call starts only when no
\* other call is in progress, without it the statements of two calls
\* interleave freely.  An exception ends the call of its caller for good.

ThreadTotalSizes == {2, 4}

\* requests up to a size whose block is the whole of the larger space
ThreadRequestSizes == {1, 2, 3}

CanStart(c) ==
    /\ calls[c].pc = "idle"
    /\ serial => \A d \in Callers : calls[d].pc = "idle"

Goto(c, call) == calls' = [calls EXCEPT ![c] = call]

Return(c) == calls' = [calls EXCEPT ![c] = IdleCall]

Raise(c, exception) ==
    calls' = [calls EXCEPT ![c].pc = "raised", ![c].fault = exception]

\* where allocate goes on once the size class cur is known to be served:
\* the caller one level down splits cur, the outermost caller pops
AfterAvailable(call, cur) ==
    [call EXCEPT !.cur = cur,
                 !.pc = IF cur = call.block_size THEN "allocate_pop"
                        ELSE "split_check"]

\* allocate, line 37: the block size of the request
allocate_begin(c, size, process_name) ==
    /\ CanStart(c)
    /\ Goto(c, [IdleCall EXCEPT !.pc = "ensure_check",
                                !.process_name = process_name,
                                !.size = size,
                                !.block_size = find_block_size(size),
                                !.cur = find_block_size(size)])
    /\ UNCHANGED <<total_memory, free_blocks, allocated_blocks, op, serial>>

\* _ensure_block_available, lines 53-61: the emptiness check of one level
\* and the bound check of the next; a failure is returned up to allocate,
\* which returns None
ensure_check(c) ==
    LET call == calls[c] IN
    /\ call.pc = "ensure_check"
    /\ IF call.cur \in DOMAIN free_blocks /\ free_blocks[call.cur] # <<>>
       THEN Goto(c, AfterAvailable(call, call.cur))
       ELSE IF call.cur * 2 <= total_memory
            THEN Goto(c, [call EXCEPT !.cur = call.cur * 2])
            ELSE Return(c)
    /\ UNCHANGED <<total_memory, free_blocks, allocated_blocks, op, serial>>

\* _split_block, lines 64-67: the emptiness check before the pop; its False
\* is dropped by line 58, the caller goes on as after a split
split_check(c) ==
    LET call == calls[c] IN
    /\ call.pc = "split_check"
    /\ IF call.cur \notin DOMAIN free_blocks \/ free_blocks[call.cur] = <<>>
       THEN Goto(c, AfterAvailable(call, call.cur \div 2))
       ELSE Goto(c, [call EXCEPT !.pc = "split_pop"])
    /\ UNCHANGED <<total_memory, free_blocks, allocated_blocks, op, serial>>

\* _split_block, line 69: pop(0) of the larger list
split_pop(c) ==
    LET call == calls[c] IN
    /\ call.pc = "split_pop"
    /\ IF free_blocks[call.cur] = <<>>
       THEN Raise(c, "IndexError") /\ UNCHANGED free_blocks
       ELSE LET p == pop_first(free_blocks[call.cur]) IN
            /\ free_blocks' = [free_blocks EXCEPT ![call.cur] = p.rest]
            /\ Goto(c, [call EXCEPT !.pc = "split_append_first",
                                    !.address = p.value])
    /\ UNCHANGED <<total_memory, allocated_blocks, op, serial>>

\* _split_block, line 71: the lower half joins the smaller list
split_append_first(c) ==
    LET call == calls[c]
        smaller_block_size == call.cur \div 2
    IN
    /\ call.pc = "split_append_first"
    /\ IF smaller_block_size \notin DOMAIN free_blocks
       THEN Raise(c, "KeyError") /\ UNCHANGED free_blocks
       ELSE /\ free_blocks' = [free_blocks EXCEPT ![smaller_block_size] =
                                   Append(@, call.address)]
            /\ Goto(c, [call EXCEPT !.pc = "split_append_second"])
    /\ UNCHANGED <<total_memory, allocated_blocks, op, serial>>

\* the split that forgets its upper half
split_append_second_skip(c) ==
    LET call == calls[c] IN
    /\ call.pc = "split_append_second"
    /\ Goto(c, AfterAvailable([call EXCEPT !.address = None],
                              call.cur \div 2))
    /\ UNCHANGED <<total_memory, free_blocks, allocated_blocks, op, serial>>

\* _split_block, lines 72-73: the upper half joins the smaller list, and
\* line 59 returns to the level below
split_append_second(c) ==
    LET call == calls[c]
        smaller_block_size == call.cur \div 2
    IN
    /\ call.pc = "split_append_second"
    /\ free_blocks' = [free_blocks EXCEPT ![smaller_block_size] =
                           Append(@, call.address + smaller_block_size)]
    /\ Goto(c, AfterAvailable([call EXCEPT !.address = None],
                              smaller_block_size))
    /\ UNCHANGED <<total_memory, allocated_blocks, op, serial>>

\* allocate, line 46: pop(0) of the list of the block size
allocate_pop(c) ==
    LET call == calls[c] IN
    /\ call.pc = "allocate_pop"
    /\ IF free_blocks[call.block_size] = <<>>
       THEN Raise(c, "IndexError") /\ UNCHANGED free_blocks
       ELSE LET p == pop_first(free_blocks[call.block_size]) IN
            /\ free_blocks' = [free_blocks EXCEPT ![call.block_size] = p.rest]
            /\ Goto(c, [call EXCEPT !.pc = "allocate_record",
                                    !.address = p.value])
    /\ UNCHANGED <<total_memory, allocated_blocks, op, serial>>

\* allocate, lines 47-50: the record joins allocated_blocks
allocate_record(c) ==
    LET call == calls[c] IN
    /\ call.pc = "allocate_record"
    /\ allocated_blocks' = Append(allocated_blocks,
           <<call.process_name, call.address, call.block_size, call.size>>)
    /\ Return(c)
    /\ UNCHANGED <<total_memory, free_blocks, op, serial>>

\* deallocate, lines 79-81: the scan for the first record of the name;
\* lines 103-105 when there is none
deallocate_find(c, process_name) ==
    LET i == first_match(allocated_blocks, process_name) IN
    /\ CanStart(c)
    /\ IF i = 0
       THEN Return(c)
       ELSE Goto(c, [IdleCall EXCEPT !.pc = "deallocate_remove",
                                     !.process_name = process_name,
                                     !.block = allocated_blocks[i],
                                     !.address = allocated_blocks[i][2],
                                     !.block_size = allocated_blocks[i][3],
                                     !.cur = allocated_blocks[i][3]])
    /\ UNCHANGED <<total_memory, free_blocks, allocated_blocks, op, serial>>

\* deallocate, line 82: allocated_blocks.remove(block)
deallocate_remove(c) ==
    LET call == calls[c] IN
    /\ call.pc = "deallocate_remove"
    /\ IF Contains(allocated_blocks, call.block)
       THEN /\ allocated_blocks' = list_remove(allocated_blocks, call.block)
            /\ Goto(c, [call EXCEPT !.pc = "deallocate_append",
                                    !.block = <<>>])
       ELSE Raise(c, "ValueError") /\ UNCHANGED allocated_blocks
    /\ UNCHANGED <<total_memory, free_blocks, op, serial>>

\* deallocate, lines 83-85: the address joins the list of its block size
deallocate_append(c) ==
    LET call == calls[c] IN
    /\ call.pc = "deallocate_append"
    /\ free_blocks' =
           IF call.cur \in DOMAIN free_blocks
           THEN [free_blocks EXCEPT ![call.cur] = Append(@, call.address)]
           ELSE [s \in DOMAIN free_blocks \cup {call.cur} |->
                    IF s = call.cur THEN <<call.address>> ELSE free_blocks[s]]
    /\ Goto(c, [call EXCEPT !.pc = "deallocate_sort"])
    /\ UNCHANGED <<total_memory, allocated_blocks, op, serial>>

\* deallocate, line 86: the list is sorted
deallocate_sort(c) ==
    LET call == calls[c] IN
    /\ call.pc = "deallocate_sort"
    /\ free_blocks' = [free_blocks EXCEPT ![call.cur] = list_sort(@)]
    /\ Goto(c, [call EXCEPT !.pc = "merge_test"])
    /\ UNCHANGED <<total_memory, allocated_blocks, op, serial>>

\* deallocate, lines 90-92 and 100-102: the loop test and the membership
\* check of the buddy
merge_test(c) ==
    LET call == calls[c]
        buddy_address == find_buddy(call.address, call.cur)
    IN
    /\ call.pc = "merge_test"
    /\ IF call.cur < total_memory
          /\ Contains(free_blocks[call.cur], buddy_address)
       THEN Goto(c, [call EXCEPT !.pc = "merge_remove_address",
                                 !.buddy_address = buddy_address])
       ELSE Return(c)
    /\ UNCHANGED <<total_memory, free_blocks, allocated_blocks, op, serial>>

\* deallocate, line 93: remove(address)
merge_remove_address(c) ==
    LET call == calls[c] IN
    /\ call.pc = "merge_remove_address"
    /\ IF Contains(free_blocks[call.cur], call.address)
       THEN /\ free_blocks' = [free_blocks EXCEPT ![call.cur] =
                                   list_remove(@, call.address)]
            /\ Goto(c, [call EXCEPT !.pc = "merge_remove_buddy"])
       ELSE Raise(c, "ValueError") /\ UNCHANGED free_blocks
    /\ UNCHANGED <<total_memory, allocated_blocks, op, serial>>

\* deallocate, line 94: remove(buddy_address)
merge_remove_buddy(c) ==
    LET call == calls[c] IN
    /\ call.pc = "merge_remove_buddy"
    /\ IF Contains(free_blocks[call.cur], call.buddy_address)
       THEN /\ free_blocks' = [free_blocks EXCEPT ![call.cur] =
                                   list_remove(@, call.buddy_address)]
            /\ Goto(c, [call EXCEPT !.pc = "merge_append"])
       ELSE Raise(c, "ValueError") /\ UNCHANGED free_blocks
    /\ UNCHANGED <<total_memory, allocated_blocks, op, serial>>

\* deallocate, lines 95-97: the merged block joins the doubled list
merge_append(c) ==
    LET call == calls[c]
        address == min(call.address, call.buddy_address)
        block_size == call.cur * 2
    IN
    /\ call.pc = "merge_append"
    /\ IF block_size \in DOMAIN free_blocks
       THEN /\ free_blocks' = [free_blocks EXCEPT ![block_size] =
                                   Append(@, address)]
            /\ Goto(c, [call EXCEPT !.pc = "merge_test",
                                    !.address = address,
                                    !.buddy_address = None,
                                    !.cur = block_size])
       ELSE Raise(c, "KeyError") /\ UNCHANGED free_blocks
    /\ UNCHANGED <<total_memory, allocated_blocks, op, serial>>

NextThreads ==
    \E c \in Callers :
        \/ \E size \in ThreadRequestSizes, process_name \in Owners :
               allocate_begin(c, size, process_name)
        \/ ensure_check(c)
        \/ split_check(c)
        \/ split_pop(c)
        \/ split_append_first(c)
        \/ split_append_second(c)
        \/ allocate_pop(c)
        \/ allocate_record(c)
        \/ \E process_name \in Owners : deallocate_find(c, process_name)
        \/ deallocate_remove(c)
        \/ deallocate_append(c)
        \/ deallocate_sort(c)
        \/ merge_test(c)
        \/ merge_remove_address(c)
        \/ merge_remove_buddy(c)
        \/ merge_append(c)

InitThreads ==
    /\ total_memory \in ThreadTotalSizes
    /\ free_blocks = initialize_free_blocks(total_memory)
    /\ allocated_blocks = <<>>
    /\ op = OpRecord("init", "", 0, 0, None, TRUE, 0, 0, FALSE, "none")
    /\ calls = [c \in Callers |-> IdleCall]
    /\ serial \in BOOLEAN

SpecThreads == InitThreads /\ [][NextThreads]_vars

----------------------------------------------------------------------------
\* Properties

\* the indices of a list
Indices(list) == 1..Len(list)

\* the addresses [a, a + size)
Range(a, size) == a..(a + size - 1)

\* the free blocks as (size, position in the free list of that size)
FreeEntries ==
    UNION {{<<s, i>> : i \in 1..Len(free_blocks[s])} : s \in DOMAIN free_blocks}

\* the free blocks and the live records that cover address x
FreeCover(x) == {e \in FreeEntries : x \in Range(free_blocks[e[1]][e[2]], e[1])}
AllocCover(x) == {i \in Indices(allocated_blocks) :
                    x \in Range(allocated_blocks[i][2], allocated_blocks[i][3])}

\* the addresses that lie in some free block
FreeAddresses == {x \in 0..(total_memory - 1) : FreeCover(x) # {}}

\* C1 (Conservation): after every allocate or deallocate call, successful or
\* failing, allocated_space + free_space + internal_fragmentation of
\* calculate_stats equals total_size.
Conservation ==
    calculate_stats.allocated_space + calculate_stats.free_space
        + calculate_stats.internal_fragmentation = total_memory

\* C1 witness: a deallocate succeeded and a live record still wastes space
ConservationWitness ==
    /\ op.kind = "deallocate" /\ op.ok
    /\ calculate_stats.internal_fragmentation > 0
    /\ calculate_stats.free_space > 0

\* C2 (Exact tiling): after every call, every address of [0, total_size) lies
\* in exactly one block, counting every entry of every free list and every
\* live record; so no gap, no double cover, no duplicate free-list entry.
ExactTiling ==
    \A x \in 0..(total_memory - 1) :
        Cardinality(FreeCover(x)) + Cardinality(AllocCover(x)) = 1

\* C2 witness: a deallocate merged buddies while records stay live and two
\* size classes hold free blocks
ExactTilingWitness ==
    /\ op.kind = "deallocate" /\ op.ok /\ op.steps >= 1
    /\ Len(allocated_blocks) >= 2
    /\ Cardinality({s \in DOMAIN free_blocks : free_blocks[s] # <<>>}) >= 2

\* C3 (No overlap): the ranges [address, address + block_size) of two distinct
\* live records never intersect, also when both records carry the same name.
NoOverlap ==
    \A i, j \in Indices(allocated_blocks) :
        i # j =>
            Range(allocated_blocks[i][2], allocated_blocks[i][3])
                \cap Range(allocated_blocks[j][2], allocated_blocks[j][3]) = {}

\* C3 witness: an allocate succeeded next to a live record of the same name
NoOverlapWitness ==
    /\ op.kind = "allocate" /\ op.ok
    /\ \E i, j \in Indices(allocated_blocks) :
           /\ i < j /\ j = Len(allocated_blocks)
           /\ allocated_blocks[i][1] = allocated_blocks[j][1]

\* C4 (Smallest-address allocation): a successful allocate returns the lowest
\* address among the blocks free in its size class at the moment of the pop,
\* so every block left in that free list lies above the address returned.
SmallestAddressAllocation ==
    (op.kind = "allocate" /\ op.ok) =>
        \A i \in Indices(free_blocks[op.block_size]) :
            op.result < free_blocks[op.block_size][i]

\* C5 (Sorted free lists): after every call every free list is in strictly
\* ascending address order.
SortedFreeLists ==
    \A s \in DOMAIN free_blocks :
        \A i, j \in Indices(free_blocks[s]) :
            i < j => free_blocks[s][i] < free_blocks[s][j]

\* C6 (Full coalescing): after every completed call no free list of a size
\* s < total_size holds both an address and its buddy (address XOR s).
FullCoalescing ==
    \A s \in DOMAIN free_blocks :
        s < total_memory =>
            \A i \in Indices(free_blocks[s]) :
                ~Contains(free_blocks[s], Xor(free_blocks[s][i], s))

\* C6 witness: one deallocate merged across two or more levels
FullCoalescingWitness ==
    op.kind = "deallocate" /\ op.ok /\ op.steps >= 2

\* the size classes of at least block_size that hold a free block
ClassesFrom(block_size) ==
    {s \in DOMAIN free_blocks :
        block_size <= s /\ s <= total_memory /\ free_blocks[s] # <<>>}

AllOrNothingFailure ==
    [][(op'.kind = "allocate" /\ ~op'.ok) =>
          (free_blocks' = free_blocks /\ allocated_blocks' = allocated_blocks)]_vars

\* C8 witness: allocate failed while two size classes hold free blocks
AllOrNothingWitness ==
    /\ op.kind = "allocate" /\ ~op.ok
    /\ Cardinality(ClassesFrom(1)) >= 2

\* the records of the allocation list that carry the name
RecordsOf(process_name) ==
    {k \in Indices(allocated_blocks) : allocated_blocks[k][1] = process_name}

\* C9 (Unknown owner): deallocate of a name without a live record returns
\* false and leaves every free list and the allocation list unchanged.
UnknownOwnerDeallocate ==
    [][(op'.kind = "deallocate" /\ RecordsOf(op'.process_name) = {}) =>
          (~op'.ok /\ free_blocks' = free_blocks
                   /\ allocated_blocks' = allocated_blocks)]_vars

\* C9 witness: deallocate returned false while other records are live and
\* free blocks exist
UnknownOwnerWitness ==
    /\ op.kind = "deallocate" /\ ~op.ok
    /\ allocated_blocks # <<>>
    /\ ClassesFrom(1) # {}

\* the list without its i-th element
RemoveAt(list, i) == SubSeq(list, 1, i - 1) \o SubSeq(list, i + 1, Len(list))

\* C10 (First match under duplicate owners): when several live records share
\* the name, deallocate returns true, removes the earliest-inserted of them
\* and no other record, keeps the others unchanged and in order, and frees
\* the addresses of that record's block and no others.
FirstMatchDeallocation ==
    [][(op'.kind = "deallocate"
            /\ Cardinality(RecordsOf(op'.process_name)) >= 2) =>
          LET hits == RecordsOf(op'.process_name)
              first == CHOOSE i \in hits : \A j \in hits : i <= j
              block == allocated_blocks[first]
          IN  /\ op'.ok
              /\ allocated_blocks' = RemoveAt(allocated_blocks, first)
              /\ FreeAddresses' = FreeAddresses \cup Range(block[2], block[3])]_vars

\* C10 witness: deallocate returned true and a later record of the same name
\* is still live behind a record of another name
FirstMatchWitness ==
    /\ op.kind = "deallocate" /\ op.ok
    /\ \E i, j \in Indices(allocated_blocks) :
           /\ i < j
           /\ allocated_blocks[i][1] # op.process_name
           /\ allocated_blocks[j][1] = op.process_name

\* the number of entries of a list equal to x
Count(list, x) == Cardinality({i \in Indices(list) : list[i] = x})

\* a step in which deallocate frees a block right after the deallocate of its
\* buddy: the two live records of a buddy pair have both been deallocated
BuddyPairFreed ==
    /\ op.kind = "deallocate" /\ op.ok
    /\ op'.kind = "deallocate" /\ op'.ok
    /\ op'.block_size = op.block_size
    /\ op'.result = Xor(op.result, op.block_size)

\* C11 as claimed (Buddy merge completeness): after deallocating both records
\* of a buddy pair of size s, the free list of size 2s holds one block at the
\* lower address of the pair and the free list of size s holds neither of the
\* two addresses.
BuddyMergeCompleteness ==
    [][BuddyPairFreed =>
          LET s == op.block_size
              lower == min(op.result, op'.result)
          IN  /\ Count(free_blocks'[2 * s], lower) = 1
              /\ ~Contains(free_blocks'[s], op.result)
              /\ ~Contains(free_blocks'[s], op'.result)]_vars

\* C11 as amended: after deallocating both records of a buddy pair of size s,
\* the free list of size s holds neither address and no free list holds the
\* higher one; the free list of size 2s holds one block at the lower address,
\* unless the buddy of that merged block is free at size 2s: then the merge
\* cascades and one free block of a larger size covers the range of the pair.
BuddyMergeCascading ==
    [][BuddyPairFreed =>
          LET s == op.block_size
              lower == min(op.result, op'.result)
              cascades == /\ 2 * s < total_memory
                          /\ Contains(free_blocks[2 * s], Xor(lower, 2 * s))
          IN  /\ ~Contains(free_blocks'[s], op.result)
              /\ ~Contains(free_blocks'[s], op'.result)
              /\ \A t \in DOMAIN free_blocks' :
                     ~Contains(free_blocks'[t], lower + s)
              /\ IF cascades
                 THEN /\ ~Contains(free_blocks'[2 * s], lower)
                      /\ \E t \in DOMAIN free_blocks' :
                             /\ t > 2 * s
                             /\ \E i \in Indices(free_blocks'[t]) :
                                    Range(lower, 2 * s)
                                        \subseteq Range(free_blocks'[t][i], t)
                 ELSE Count(free_blocks'[2 * s], lower) = 1]_vars

\* C11 witness: deallocate found the buddy free, merged once and did not
\* cascade although a larger size class exists; the merged block is free at
\* the lower address
BuddyMergeWitness ==
    /\ op.kind = "deallocate" /\ op.ok /\ op.steps = 1
    /\ 2 * op.block_size < total_memory
    /\ allocated_blocks # <<>>
    /\ Contains(free_blocks[2 * op.block_size],
                min(op.result, Xor(op.result, op.block_size)))

\* C12 (Alignment): every free address of size class s is a multiple of s and
\* its block ends inside the space; every live record's address is a multiple
\* of its block_size and its block ends inside the space.
Alignment ==
    /\ \A e \in FreeEntries :
           /\ free_blocks[e[1]][e[2]] % e[1] = 0
           /\ free_blocks[e[1]][e[2]] + e[1] <= total_memory
    /\ \A i \in Indices(allocated_blocks) :
           /\ allocated_blocks[i][2] % allocated_blocks[i][3] = 0
           /\ allocated_blocks[i][2] + allocated_blocks[i][3] <= total_memory

\* C12 witness: a deallocate merged buddies into a free block away from
\* address 0 while a record away from address 0 is live
AlignmentWitness ==
    /\ op.kind = "deallocate" /\ op.ok /\ op.steps >= 1
    /\ \E e \in FreeEntries : e[1] >= 2 /\ free_blocks[e[1]][e[2]] > 0
    /\ \E i \in Indices(allocated_blocks) : allocated_blocks[i][2] > 0

\* the last record of the allocation list
LastRecord(blocks) == blocks[Len(blocks)]

\* C14 (Block rounding and fragmentation accounting): a successful
\* allocate(n, owner) with n >= 1 appends a record whose block_size is the
\* smallest power of two >= n (a power of two with n <= block_size < 2n) and
\* changes calculate_stats by exactly allocated_space + n,
\* internal_fragmentation + (block_size - n), free_space - block_size.
BlockRounding ==
    [][(op'.kind = "allocate" /\ op'.ok /\ op'.size >= 1) =>
          LET n == op'.size
              block_size == LastRecord(allocated_blocks')[3]
          IN  /\ Len(allocated_blocks') = Len(allocated_blocks) + 1
              /\ LastRecord(allocated_blocks')[4] = n
              /\ IsPowerOfTwo(block_size)
              /\ n <= block_size /\ block_size < 2 * n
              /\ calculate_stats.allocated_space' =
                     calculate_stats.allocated_space + n
              /\ calculate_stats.internal_fragmentation' =
                     calculate_stats.internal_fragmentation + (block_size - n)
              /\ calculate_stats.free_space' =
                     calculate_stats.free_space - block_size]_vars

\* C14 witness: allocate(5) reserved a block of 8 and the internal
\* fragmentation is 3
BlockRoundingWitness ==
    /\ op.kind = "allocate" /\ op.ok /\ op.size = 5
    /\ LastRecord(allocated_blocks)[3] = 8
    /\ calculate_stats.internal_fragmentation = 3

\* the free blocks as (size, address)
FreeSet == {<<e[1], free_blocks[e[1]][e[2]]>> : e \in FreeEntries}

\* the entries of a list that are not x, in their order
RECURSIVE Without(_, _)
Without(list, x) ==
    IF list = <<>> THEN <<>>
    ELSE IF Head(list) = x THEN Without(Tail(list), x)
    ELSE <<Head(list)>> \o Without(Tail(list), x)

\* the first Len(list) - n entries of a list
DropLast(list, n) == SubSeq(list, 1, Len(list) - n)

\* C15 (Frame of allocate): a successful allocate(n, owner) keeps every
\* earlier record unchanged and in order and appends the one record (owner,
\* address, block_size, n); one previously free block, which contains the
\* block handed out, leaves the free lists; the blocks that enter them are
\* the unused halves, all inside that block, at the end of their lists; every
\* other free-list entry stays, in its order.
AllocateFrame ==
    [][(op'.kind = "allocate" /\ op'.ok) =>
          /\ allocated_blocks' =
                 Append(allocated_blocks,
                        <<op'.process_name, op'.result, op'.block_size,
                          op'.size>>)
          /\ \E src \in FreeSet :
                 /\ src[1] >= op'.block_size
                 /\ Range(op'.result, op'.block_size)
                        \subseteq Range(src[2], src[1])
                 /\ FreeSet \ FreeSet' = {src}
                 /\ \A new \in FreeSet' \ FreeSet :
                        /\ Range(new[2], new[1]) \subseteq Range(src[2], src[1])
                        /\ Range(new[2], new[1])
                               \cap Range(op'.result, op'.block_size) = {}
                 /\ \A s \in DOMAIN free_blocks :
                        LET added == Cardinality({new \in FreeSet' \ FreeSet :
                                                     new[1] = s})
                        IN  /\ Len(free_blocks'[s]) >= added
                            /\ DropLast(free_blocks'[s], added) =
                                   IF s = src[1]
                                   THEN Without(free_blocks[s], src[2])
                                   ELSE free_blocks[s]
          /\ DOMAIN free_blocks' = DOMAIN free_blocks]_vars

\* C15 witness: allocate split a block while another record is live and a
\* free block outside the split one exists
AllocateFrameWitness ==
    /\ op.kind = "allocate" /\ op.ok /\ op.steps >= 1
    /\ Len(allocated_blocks) >= 2
    /\ Cardinality(FreeSet) > op.steps

\* 2^k
RECURSIVE PowerOfTwo(_)
PowerOfTwo(k) == IF k = 0 THEN 1 ELSE 2 * PowerOfTwo(k - 1)

\* C16 (Bounded split/merge chains): an allocate with block size b makes at
\* most log2(total_size / b) splits and its recursion never asks for a block
\* larger than total_size; a deallocate of a block of size b makes at most
\* log2(total_size / b) merges; an allocate whose block size exceeds
\* total_size makes no split and no recursive call.
BoundedChains ==
    (op.kind \in {"allocate", "deallocate"} /\ op.block_size >= 1) =>
        IF op.block_size <= total_memory
        THEN /\ PowerOfTwo(op.steps) * op.block_size <= total_memory
             /\ PowerOfTwo(op.depth) * op.block_size <= total_memory
        ELSE op.steps = 0 /\ op.depth = 0

\* C16 witness: a call made the longest chain there is, from block size 1 to
\* the whole space of 8
BoundedChainsWitness ==
    /\ op.kind \in {"allocate", "deallocate"} /\ op.ok
    /\ op.block_size = 1 /\ total_memory = 8 /\ op.steps = 3

\* C18 (Return to the initial state): whenever no record is live, which is
\* the case at the start and once every live allocation has been deallocated,
\* the free list of total_size is [0] and every smaller free list is empty.
ReturnToInitialState ==
    allocated_blocks = <<>> =>
        /\ DOMAIN free_blocks = {total_memory} \cup HalvingKeys(total_memory \div 2)
        /\ \A s \in DOMAIN free_blocks :
               free_blocks[s] = IF s = total_memory THEN <<0>> ELSE <<>>

\* C18 witness: the deallocate of the last live record merged across two or
\* more levels
ReturnToInitialStateWitness ==
    /\ op.kind = "deallocate" /\ op.ok /\ op.steps >= 2
    /\ allocated_blocks = <<>>

\* C20 (No operation on a missing block in sequential use): no call raises
\* an exception, so the pop of allocate never runs on an empty list and the
\* remove calls of the merge loop find their address, and no _split_block
\* takes its "Cannot split" branch.
NoMissingBlock ==
    op.fault = "none" /\ ~op.cannot_split

\* C20 witness: allocate split a block and popped the half it made while
\* records are live
NoMissingBlockWitness ==
    /\ op.kind = "allocate" /\ op.ok /\ op.steps >= 1
    /\ Len(allocated_blocks) >= 3

\* C13 (Invalid size rejection): allocate with requested_size <= 0 is
\* rejected before any state mutation: no allocate of such a size returns an
\* address, no record holds such a size, and the three values of
\* calculate_stats are non-negative.
InvalidSizeRejected ==
    /\ (op.kind = "allocate" /\ op.ok) => op.size >= 1
    /\ \A i \in Indices(allocated_blocks) : allocated_blocks[i][4] >= 1
    /\ calculate_stats.allocated_space >= 0
    /\ calculate_stats.free_space >= 0
    /\ calculate_stats.internal_fragmentation >= 0

\* C19 (Non-power-of-two total size): with a total_size that is no power of
\* two every allocate(n, owner), n >= 1, fails and the state stays the
\* initial one: the one block of total_size is never split or handed out.
NonPowerTotalFrozen ==
    /\ op.kind = "allocate" => (~op.ok /\ op.result = None /\ op.steps = 0)
    /\ allocated_blocks = <<>>
    /\ DOMAIN free_blocks = {total_memory} \cup HalvingKeys(total_memory \div 2)
    /\ \A s \in DOMAIN free_blocks :
           free_blocks[s] = IF s = total_memory THEN <<0>> ELSE <<>>

\* C19 witness: an allocate of a block smaller than the whole space failed
\* after its recursion went up the sizes, one of which has a free list
NonPowerTotalWitness ==
    /\ op.kind = "allocate" /\ ~op.ok
    /\ op.block_size < total_memory /\ op.depth >= 2
    /\ \E s \in DOMAIN free_blocks : op.block_size <= s /\ s < total_memory

\* a call that ended in an exception
Raised == \E c \in Callers : calls[c].pc = "raised"

\* no call in progress
Quiescent == \A c \in Callers : calls[c].pc = "idle"

\* C17 (Unsafe interleaving without a lock): run one call at a time, no pop
\* or remove meets a list without the expected address (no call ends in an
\* exception) and between calls every address of [0, total_memory) is free
\* or covered by a record; the bad state needs the interleaving.
SerialCallsSafe ==
    serial => /\ ~Raised
              /\ Quiescent => ExactTiling

\* C17 witness: with the statements of two calls interleaved, a pop of
\* allocate meets a list another allocate emptied after the emptiness check
UnsafeInterleavingWitness ==
    /\ ~serial
    /\ \E c, d \in Callers :
           /\ c # d
           /\ calls[c].pc = "raised" /\ calls[c].fault = "IndexError"
           /\ calls[c].size > 0
           /\ calls[d].pc = "allocate_record"

====
